---- MODULE Spec2Model ----
(***************************************************************************)
(* Registration and activation workflow of QuiteMap.                       *)
(*                                                                         *)
(* The web process (src/main.py: register, activate_account, login) and    *)
(* the Telegram bot process (src/quite_map_register_bot.py:                *)
(* start_or_activate) share one SQL store.  Every handler opens its own    *)
(* session; a SELECT reads the committed store and a commit writes it, so   *)
(* each query and each commit of a handler is one step of the model and    *)
(* the steps of the invocations in flight interleave freely.               *)
(*                                                                         *)
(* Strings are sequences of one-character strings, so that strip() and     *)
(* lstrip('@') are computed and not assumed.  Time is counted in hours.    *)
(* secrets.token_urlsafe(32) is modelled as a fresh value: the n-th        *)
(* activation token is n, and the n-th pending row has id n and            *)
(* confirmation token n (the two kinds of token are never compared).       *)
(* NULL is 0 for tokens and ids.                                           *)
(***************************************************************************)
EXTENDS Integers, Sequences, FiniteSets, Bags, TLC

\* ------------------------------------------------------------- bounds
\* invocations that can be in flight at the same time
NSlots == 2
\* the clock runs from 0 to MaxTime hours
MaxTime == 2
\* pending registrations inserted over a run
MaxInserts == 2
\* promotions attempted over a run
MaxTokens == 2

\* ------------------------------------------------- program constants
\* timedelta(hours=1)
TTL == 1
\* len(username) < 3
MinUsernameLen == 3
\* len(username) > 50
MaxUsernameLen == 50
\* len(password) < 6
MinPasswordLen == 6

\* ------------------------------------------------------------ strings
Rep(c, n) == [i \in 1..n |-> c]

\* str.strip() with no argument removes these
Whitespace == {" "}

RECURSIVE LStripChars(_, _)
\* str.lstrip(chars)
LStripChars(s, chars) ==
    IF s # <<>> /\ Head(s) \in chars THEN LStripChars(Tail(s), chars) ELSE s

RECURSIVE RStripChars(_, _)
\* str.rstrip(chars)
RStripChars(s, chars) ==
    IF s # <<>> /\ s[Len(s)] \in chars
    THEN RStripChars(SubSeq(s, 1, Len(s) - 1), chars)
    ELSE s

\* str.strip()
Strip(s) == RStripChars(LStripChars(s, Whitespace), Whitespace)

\* username = username.strip()
NormUsername(raw) == Strip(raw)

\* telegram_handle = telegram_handle.lstrip('@').strip()
NormHandle(raw) == Strip(LStripChars(raw, {"@"}))

\* password = password.strip()
NormPassword(raw) == Strip(raw)

\* pwd_context.hash(password): an opaque digest of the password
get_password_hash(password) == <<"bcrypt", password>>

\* pwd_context.verify(plain_password, hashed_password)
verify_password(plain_password, hashed_password) ==
    hashed_password = get_password_hash(plain_password)

\* ------------------------------------------------------------- inputs
U1 == Rep("a", 3)
U2 == Rep("b", 3)
H1 == <<"h">>
H2 == <<"g">>
P1 == Rep("p", 6)
P2 == Rep("q", 6)

\* submissions of the registration form, <<username, telegram_handle, password>>,
\* that concurrent requests are drawn from: two names for one handle, one
\* name for two handles
RegisterInputs ==
    { <<U1, H1, P1>>, <<U2, H1, P2>>, <<U1, H2, P2>> }

\* the same, for requests that run one after the other: each name with each
\* handle, one name with one handle under two passwords, and submissions
\* that need normalising or fail validation
RegisterInputsSeq ==
    { <<U1, H1, P1>>, <<U1, H1, P2>>, <<U2, H1, P2>>, <<U1, H2, P2>>, <<U2, H2, P1>> }
    \cup { <<<<" ">> \o U1, H1, P1>>,
           <<U1, <<"@">> \o H1, P1>>,
           <<U1, <<" ", "@">> \o H1, P1>>,
           <<U1, <<" ">> \o H1 \o <<" ">>, P1>>,
           <<U1, H1, P1 \o <<" ">> >>,
           <<Rep("a", 2), H1, P1>>,
           <<Rep("a", 51), H1, P1>>,
           <<U1, <<"@">>, P1>>,
           <<U1, H1, Rep("p", 5)>>,
           <<Rep("a", 2), <<"@">>, Rep("p", 5)>>,
           <<U1, <<" ">>, Rep("p", 5)>> }

\* submissions of the login form: <<username, password>>
LoginInputs == { <<U1, P1>>, <<U1, P2>>, <<U2, P2>> }

LoginInputsSeq ==
    ({U1, U2} \X {P1, P2}) \cup { <<<<" ">> \o U1, P1>>, <<U1, P1 \o <<" ">> >> }

\* Telegram usernames of the users who talk to the bot
TgHandles == {H1, H2}

\* -------------------------------------------------------------- state
VARIABLES
    users,      \* table users: set of rows
    pendings,   \* table pending_registrations: set of rows
    now,        \* datetime.now(timezone.utc), in hours
    inserted,   \* number of pending rows inserted so far
    issued,     \* number of activation tokens generated so far
    calls,      \* the bag of invocations in flight, each with its locals
    last,       \* the request answered by the step just taken, with the
                \* response sent; NoResponse if the step answered none
    consumed,   \* history: token -> number of successful activations with it
    scen,       \* history: progress of the register/confirm/activate/login scenario
    pre         \* history: the store and the clock as the invocation in flight,
                \* or the one just answered, found them when it arrived, if no
                \* other invocation was in flight with it

vars == <<users, pendings, now, inserted, issued, calls, last, consumed, scen, pre>>

\* the locals of an invocation that has not run its first statement;
\* tracked (history) marks the invocation whose end is being waited for
Idle ==
    [op |-> "idle", pc |-> "idle", username |-> <<>>, handle |-> <<>>,
     password |-> <<>>, token |-> 0, row |-> {}, uid |-> 0, tracked |-> FALSE]

NoResponse ==
    [op |-> "idle", username |-> <<>>, handle |-> <<>>, password |-> <<>>,
     token |-> 0, code |-> 0, detail |-> "", link |-> 0, name |-> <<>>]

\* the response of call c: a status code and a message
Response(c, code, detail) ==
    [op |-> c.op, username |-> c.username, handle |-> c.handle,
     password |-> c.password, token |-> c.token,
     code |-> code, detail |-> detail, link |-> 0, name |-> <<>>]

ScenStart ==
    [stage |-> "start", username |-> <<>>, handle |-> <<>>, password |-> <<>>,
     earlier |-> <<>>, token |-> 0, early |-> 0, final |-> 0, stale |-> 0]

ScenOff == [ScenStart EXCEPT !.stage = "off"]

\* no invocation is in flight and none has just been answered
PreNone == [stage |-> "none", users |-> {}, pendings |-> {}, now |-> 0]

\* invocations have overlapped
PreOff == [PreNone EXCEPT !.stage = "off"]

\* what an invocation that arrives now finds
Snapshot == [stage |-> "on", users |-> users, pendings |-> pendings, now |-> now]

Init ==
    /\ users = {}
    /\ pendings = {}
    /\ now = 0
    /\ inserted = 0
    /\ issued = 0
    /\ calls = EmptyBag
    /\ last = NoResponse
    /\ consumed = [t \in 1..MaxTokens |-> 0]
    /\ scen = ScenStart
    /\ pre = PreNone

\* ---------------------------------------------------------- the store
\* db.query(M).filter(...).first(): the set holding the row found, or {}
First(rows) == IF rows = {} THEN {} ELSE {CHOOSE r \in rows : TRUE}

\* mutant: the filter is on the wrong column
UserByUsername_WrongColumn(username) ==
    First({u \in users : u.telegram_handle = username})

UserByUsername(username) == First({u \in users : u.username = username})

\* mutant: the filter is on the wrong column
UserByHandle_WrongColumn(handle) == First({u \in users : u.username = handle})

UserByHandle(handle) == First({u \in users : u.telegram_handle = handle})

\* mutant: the filter is on the wrong column
UserByToken_WrongColumn(token) == First({u \in users : u.id = token})

\* a NULL activation_token matches no token
UserByToken(token) ==
    First({u \in users : u.activation_token # 0 /\ u.activation_token = token})

\* mutant: the filter on the handle is missing
PendingByHandle_NoFilter(handle) == First(pendings)

PendingByHandle(handle) == First({p \in pendings : p.telegram_handle = handle})

\* mutant: the column is not declared unique
UsernameUnique_Off(rows) == TRUE

\* users.username: unique=True
UsernameUnique(rows) ==
    \A a, b \in rows : a.username = b.username => a = b

\* users.telegram_handle: unique
UserHandleUnique(rows) ==
    \A a, b \in rows : a.telegram_handle = b.telegram_handle => a = b

\* mutant: the column has no unique index
PendingHandleUnique_Off(rows) == TRUE

\* pending_registrations.telegram_handle: unique
PendingHandleUnique(rows) ==
    \A a, b \in rows : a.telegram_handle = b.telegram_handle => a = b

\* mutant: the comparison is the wrong way round
Expired_Reversed(row) == row.expires_at > now

\* expires_at < datetime.now(timezone.utc)
Expired(row) == row.expires_at < now

\* db.delete(row); db.commit(): DELETE ... WHERE id = ?; when the row is
\* gone already the ORM only warns
DeleteRow(rows) == {p \in pendings : \A r \in rows : p.id # r.id}

\* ------------------------------------------------- scenario (history)
\* the invocations in flight beside c
Others(c) == calls (-) SetToBag({c})

Alone(c) == Others(c) = EmptyBag

\* a request can be taken on
Free == BagCardinality(calls) < NSlots

\* the scenario after call c, running with no other call in flight, got r
ScenAfter(c, r) ==
    IF scen.stage = "start" /\ c.op = "register" /\ r.code = 200
       /\ r.detail = "Registration request created"
    THEN [scen EXCEPT !.stage = "registered", !.username = c.username,
                      !.handle = c.handle, !.password = c.password]
    ELSE IF scen.stage = "registered" /\ c.op = "register" /\ r.code = 200
             /\ c.handle = scen.handle
    THEN [scen EXCEPT !.username = c.username, !.password = c.password,
                      !.earlier = scen.password]
    ELSE IF scen.stage = "registered" /\ c.op = "start_or_activate"
             /\ c.handle = scen.handle /\ r.detail = "registered"
    THEN [scen EXCEPT !.stage = "confirmed", !.token = r.link]
    ELSE IF scen.stage = "confirmed" /\ c.op = "login" /\ scen.early = 0
             /\ c.username = scen.username /\ c.password = scen.password
    THEN [scen EXCEPT !.early = r.code]
    ELSE IF scen.stage = "confirmed" /\ c.op = "activate"
             /\ c.token = scen.token /\ r.code = 200
    THEN [scen EXCEPT !.stage = "activated"]
    ELSE IF scen.stage = "activated" /\ c.op = "login"
             /\ c.username = scen.username /\ c.password = scen.password
    THEN [scen EXCEPT !.stage = "done", !.final = r.code]
    ELSE IF scen.stage = "activated" /\ c.op = "login" /\ scen.stale = 0
             /\ scen.earlier # <<>>
             /\ c.username = scen.username /\ c.password = scen.earlier
    THEN [scen EXCEPT !.stale = r.code]
    ELSE ScenOff

\* ------------------------------------------------------ handler steps
\* invocation c, its locals now c2, goes on to statement pc
Goto(c, c2, pc) ==
    /\ calls' = Others(c) (+) SetToBag({[c2 EXCEPT !.pc = pc]})
    /\ last' = NoResponse
    /\ scen' = IF Alone(c) THEN scen ELSE ScenOff
    /\ pre' = IF ~Alone(c) THEN PreOff ELSE IF c.pc = "idle" THEN Snapshot ELSE pre

\* invocation c returns response r
Return(c, r) ==
    /\ calls' = Others(c)
    /\ last' = r
    /\ scen' = IF Alone(c) /\ scen.stage # "off" THEN ScenAfter(c, r) ELSE ScenOff
    /\ pre' = IF ~Alone(c) THEN PreOff ELSE IF c.pc = "idle" THEN Snapshot ELSE pre

At(c, op, pc) == BagIn(c, calls) /\ c.op = op /\ c.pc = pc

Quiet == UNCHANGED <<users, pendings, now, inserted, issued, consumed>>

\* ------------------------------------------------- register (main.py)
\* mutant: the handle is tested before the username
ValidationError_HandleFirst(username, telegram_handle, password) ==
    IF telegram_handle = <<>>
    THEN "Telegram handle is required"
    ELSE IF Len(username) < MinUsernameLen
    THEN "Username must be at least 3 characters"
    ELSE IF Len(username) > MaxUsernameLen
    THEN "Username must be 50 characters or less"
    ELSE IF Len(password) < MinPasswordLen
    THEN "Password must be at least 6 characters"
    ELSE ""

\* the detail of the 400 response of the first test that fails on the
\* normalised inputs, "" if none does
ValidationError(username, telegram_handle, password) ==
    IF Len(username) < MinUsernameLen
    THEN "Username must be at least 3 characters"
    ELSE IF Len(username) > MaxUsernameLen
    THEN "Username must be 50 characters or less"
    ELSE IF telegram_handle = <<>>
    THEN "Telegram handle is required"
    ELSE IF Len(password) < MinPasswordLen
    THEN "Password must be at least 6 characters"
    ELSE ""

\* a submission arrives: normalise, validate, and look the username up
\* among the users
Register(in) ==
    LET c == [Idle EXCEPT !.op = "register", !.username = in[1],
                          !.handle = in[2], !.password = in[3]]
        username == NormUsername(c.username)
        telegram_handle == NormHandle(c.handle)
        password == NormPassword(c.password)
        invalid == ValidationError(username, telegram_handle, password)
        Bad(detail) == Return(c, Response(c, 400, detail))
    IN  /\ Free
        /\ Quiet
        /\ IF invalid # ""
           THEN Bad(invalid)
           ELSE IF UserByUsername(username) # {}
           THEN Bad("Username already registered")
           ELSE Goto(c, c, "check_handle")

\* look the handle up among the users
RegisterCheckHandle(c) ==
    /\ At(c, "register", "check_handle")
    /\ Quiet
    /\ IF UserByHandle(NormHandle(c.handle)) # {}
       THEN Return(c, Response(c, 400,
                                  "This Telegram handle is already registered"))
       ELSE Goto(c, c, "check_pending")

\* look the handle up among the pending registrations and compare the clock
RegisterCheckPending(c) ==
    LET existing_pending == PendingByHandle(NormHandle(c.handle))
    IN  /\ At(c, "register", "check_pending")
        /\ Quiet
        /\ IF existing_pending = {}
           THEN Goto(c, c, "insert")
           ELSE IF \E r \in existing_pending : Expired(r)
           THEN Goto(c, [c EXCEPT !.row = existing_pending], "delete_expired")
           ELSE Goto(c, [c EXCEPT !.row = existing_pending], "update")

\* mutant: the expired row is left in the table
ExpiredDeleted_Kept(rows) == pendings

\* db.delete(existing_pending); db.commit(), on the expired branch
ExpiredDeleted(rows) == DeleteRow(rows)

\* the expired row is deleted and the deletion committed
RegisterDeleteExpired(c) ==
    /\ At(c, "register", "delete_expired")
    /\ pendings' = ExpiredDeleted(c.row)
    /\ Goto(c, [c EXCEPT !.row = {}], "insert")
    /\ UNCHANGED <<users, now, inserted, issued, consumed>>

\* mutant: the update renews the expiry
UpdatedPending_Renewed(p, c) ==
    IF \E r \in c.row : r.id = p.id
    THEN [p EXCEPT !.username = NormUsername(c.username),
                   !.hashed_password = get_password_hash(NormPassword(c.password)),
                   !.expires_at = now + TTL]
    ELSE p

\* mutant: the new password is not stored
UpdatedPending_OldPassword(p, c) ==
    IF \E r \in c.row : r.id = p.id
    THEN [p EXCEPT !.username = NormUsername(c.username)]
    ELSE p

\* existing_pending.username = username;
\* existing_pending.hashed_password = get_password_hash(password): row p of
\* the table after the UPDATE ... WHERE id = ?, which sets the columns whose
\* value differs from the one this session loaded
UpdatedPending(p, c) ==
    IF \E r \in c.row : r.id = p.id
    THEN [p EXCEPT !.username =
                      IF \E r \in c.row : r.username # NormUsername(c.username)
                      THEN NormUsername(c.username) ELSE @,
                   !.hashed_password = get_password_hash(NormPassword(c.password))]
    ELSE p

\* the update is committed; it raises StaleDataError when the row is gone
RegisterUpdate(c) ==
    /\ At(c, "register", "update")
    /\ UNCHANGED <<users, now, inserted, issued, consumed>>
    /\ IF \E p \in pendings : \E r \in c.row : r.id = p.id
       THEN /\ pendings' = {UpdatedPending(p, c) : p \in pendings}
            /\ Return(c, Response(c, 200, "Registration request updated"))
       ELSE /\ pendings' = pendings
            /\ Return(c, Response(c, 500, "Registration error: StaleDataError"))

\* mutant: the row expires the moment it is created
PendingRegistration_NoTTL(c) ==
    [id |-> inserted + 1,
     username |-> NormUsername(c.username),
     telegram_handle |-> NormHandle(c.handle),
     hashed_password |-> get_password_hash(NormPassword(c.password)),
     confirmation_token |-> inserted + 1,
     expires_at |-> now]

\* PendingRegistration(username=..., telegram_handle=..., hashed_password=...,
\* confirmation_token=..., expires_at=now + 1 hour), with the id the INSERT gives it
PendingRegistration(c) ==
    [id |-> inserted + 1,
     username |-> NormUsername(c.username),
     telegram_handle |-> NormHandle(c.handle),
     hashed_password |-> get_password_hash(NormPassword(c.password)),
     confirmation_token |-> inserted + 1,
     expires_at |-> now + TTL]

\* hash, token_urlsafe, INSERT, commit; IntegrityError is caught and rolled back
RegisterInsert(c) ==
    LET pending_reg == PendingRegistration(c)
    IN  /\ At(c, "register", "insert")
        /\ inserted < MaxInserts
        /\ inserted' = inserted + 1
        /\ UNCHANGED <<users, now, issued, consumed>>
        /\ IF PendingHandleUnique(pendings \cup {pending_reg})
           THEN /\ pendings' = pendings \cup {pending_reg}
                /\ Return(c, Response(c, 200, "Registration request created"))
           ELSE /\ pendings' = pendings
                /\ Return(c, Response(c, 500, "Registration error: IntegrityError"))

\* ----------------------------------------- activate_account (main.py)
\* a link is followed: look the token up among the users
Activate(token) ==
    LET c == [Idle EXCEPT !.op = "activate", !.token = token]
        user == UserByToken(token)
    IN  /\ Free
        /\ Quiet
        /\ IF user = {}
           THEN Return(c, Response(c, 404, "Invalid or expired activation token"))
           ELSE IF \E u \in user : u.is_active
           THEN Return(c, Response(c, 400, "Account is already activated"))
           ELSE Goto(c, [c EXCEPT !.uid = (CHOOSE u \in user : TRUE).id], "commit")

\* mutant: the token is left on the row
Activated_KeepToken(u) == [u EXCEPT !.is_active = TRUE]

\* mutant: the token is cleared but the account stays inactive
Activated_StillInactive(u) == [u EXCEPT !.activation_token = 0]

\* mutant: the flag is flipped and not set
Activated_Flipped(u) == [u EXCEPT !.is_active = ~@, !.activation_token = 0]

\* user.is_active = True; user.activation_token = None
Activated(u) == [u EXCEPT !.is_active = TRUE, !.activation_token = 0]

\* the activation is committed
ActivateCommit(c) ==
    LET Upd(u) == IF u.id = c.uid THEN Activated(u) ELSE u
    IN  /\ At(c, "activate", "commit")
        /\ users' = {Upd(u) : u \in users}
        /\ consumed' = [consumed EXCEPT ![c.token] = @ + 1]
        /\ Return(c, [Response(c, 200, "Account Activated")
                            EXCEPT !.name = (CHOOSE u \in users : u.id = c.uid).username])
        /\ UNCHANGED <<pendings, now, inserted, issued>>

\* ---------------------------------------------------- login (main.py)
\* mutant: the is_active gate is missing
LoginStatus_NoGate(user, password) ==
    IF user = {} \/ \E u \in user : ~verify_password(password, u.hashed_password)
    THEN 401
    ELSE 200

\* the status login answers with, user being the row found by username
LoginStatus(user, password) ==
    IF user = {} \/ \E u \in user : ~verify_password(password, u.hashed_password)
    THEN 401
    ELSE IF \E u \in user : ~u.is_active
    THEN 400
    ELSE 200

\* mutant: the inactive account gets the message of the failed authentication
LoginDetail_OneMessage(code) ==
    IF code = 200 THEN "bearer" ELSE "Incorrect username or password"

\* the detail of the JSONResponse with that status; "bearer" is the
\* token_type of the successful response
LoginDetail(code) ==
    IF code = 401 THEN "Incorrect username or password"
    ELSE IF code = 400 THEN "Inactive user"
    ELSE "bearer"

\* the login form arrives: look the username up, verify, check is_active
Login(in) ==
    LET c == [Idle EXCEPT !.op = "login", !.username = in[1], !.password = in[2]]
        code == LoginStatus(UserByUsername(c.username), c.password)
    IN  /\ Free
        /\ Quiet
        /\ Return(c, [Response(c, code, LoginDetail(code))
                            EXCEPT !.name = IF code = 200 THEN c.username ELSE <<>>])

\* ------------------- start_or_activate (quite_map_register_bot.py)
\* mutant: the link is built from a token generated for the reply
ActivationLink_Fresh(existing_user) == issued + 1

\* f"{base_url}/activate/{existing_user.activation_token}": the token the
\* link of the status reply carries
ActivationLink(existing_user) == existing_user.activation_token

\* /start or /activate arrives from telegram_username: is the sender
\* registered already, then report the account's state
Start(telegram_username) ==
    LET c == [Idle EXCEPT !.op = "start_or_activate", !.handle = telegram_username]
        existing_user == UserByHandle(telegram_username)
        u == CHOOSE x \in existing_user : TRUE
    IN  /\ Free
        /\ Quiet
        /\ IF existing_user = {}
           THEN Goto(c, c, "check_pending")
           ELSE IF u.is_active
           THEN Return(c, [Response(c, 0, "already_activated")
                                 EXCEPT !.name = u.username])
           ELSE IF u.activation_token # 0
           THEN Return(c, [Response(c, 0, "not_activated")
                                 EXCEPT !.name = u.username,
                                        !.link = ActivationLink(u)])
           ELSE Return(c, [Response(c, 0, "contact_admin")
                                 EXCEPT !.name = u.username])

\* mutant: the bot waits for register to insert the row
StartCheckPending_Waits(c) ==
    LET pending_reg == PendingByHandle(c.handle)
    IN  /\ At(c, "start_or_activate", "check_pending")
        /\ Quiet
        /\ pending_reg # {}
        /\ IF \E r \in pending_reg : Expired(r)
           THEN Goto(c, [c EXCEPT !.row = pending_reg], "delete_expired")
           ELSE Goto(c, [c EXCEPT !.row = pending_reg], "check_username")

\* look the pending registration up and compare the clock
StartCheckPending(c) ==
    LET pending_reg == PendingByHandle(c.handle)
    IN  /\ At(c, "start_or_activate", "check_pending")
        /\ Quiet
        /\ IF pending_reg = {}
           THEN Return(c, Response(c, 0, "register_first"))
           ELSE IF \E r \in pending_reg : Expired(r)
           THEN Goto(c, [c EXCEPT !.row = pending_reg], "delete_expired")
           ELSE Goto(c, [c EXCEPT !.row = pending_reg], "check_username")

\* db.delete(pending_reg); db.commit(); report the expiry
StartDeleteExpired(c) ==
    /\ At(c, "start_or_activate", "delete_expired")
    /\ pendings' = DeleteRow(c.row)
    /\ Return(c, Response(c, 0, "expired"))
    /\ UNCHANGED <<users, now, inserted, issued, consumed>>

\* is the pending username still free
StartCheckUsername(c) ==
    /\ At(c, "start_or_activate", "check_username")
    /\ Quiet
    /\ IF \E r \in c.row : UserByUsername(r.username) # {}
       THEN Goto(c, c, "delete_collision")
       ELSE Goto(c, c, "promote")

\* db.delete(pending_reg); db.commit(); report the collision
StartDeleteCollision(c) ==
    /\ At(c, "start_or_activate", "delete_collision")
    /\ pendings' = DeleteRow(c.row)
    /\ Return(c, [Response(c, 0, "username_taken")
                        EXCEPT !.name = (CHOOSE r \in c.row : TRUE).username])
    /\ UNCHANGED <<users, now, inserted, issued, consumed>>

\* mutant: the pending row is not deleted with the insertion
PromotedPendings_Kept(rows) == pendings

\* db.delete(pending_reg), in the transaction that inserts the user
PromotedPendings(rows) == DeleteRow(rows)

\* mutant: the account is created without a token
User_NoToken(pending_reg, activation_token) ==
    [id |-> Cardinality(users) + 1,
     username |-> pending_reg.username,
     hashed_password |-> pending_reg.hashed_password,
     telegram_handle |-> pending_reg.telegram_handle,
     activation_token |-> 0,
     is_active |-> FALSE,
     pending_id |-> pending_reg.id]

\* User(username=pending_reg.username, hashed_password=..., telegram_handle=...,
\* activation_token=activation_token, is_active=False), with the id the
\* INSERT gives it; pending_id (history) is the row it was promoted from
User(pending_reg, activation_token) ==
    [id |-> Cardinality(users) + 1,
     username |-> pending_reg.username,
     hashed_password |-> pending_reg.hashed_password,
     telegram_handle |-> pending_reg.telegram_handle,
     activation_token |-> activation_token,
     is_active |-> FALSE,
     pending_id |-> pending_reg.id]

\* token_urlsafe, INSERT the user, DELETE the pending row, one commit;
\* IntegrityError is caught and the transaction rolled back
StartPromote(c) ==
    LET pending_reg == CHOOSE r \in c.row : TRUE
        activation_token == issued + 1
        new_user == User(pending_reg, activation_token)
    IN  /\ At(c, "start_or_activate", "promote")
        /\ issued < MaxTokens
        /\ issued' = issued + 1
        /\ UNCHANGED <<now, inserted, consumed>>
        /\ IF /\ UsernameUnique(users \cup {new_user})
              /\ UserHandleUnique(users \cup {new_user})
           THEN /\ users' = users \cup {new_user}
                /\ pendings' = PromotedPendings(c.row)
                /\ Return(c, [Response(c, 0, "registered")
                                    EXCEPT !.name = new_user.username,
                                           !.link = activation_token])
           ELSE /\ UNCHANGED <<users, pendings>>
                /\ Return(c, Response(c, 0, "error: IntegrityError"))

\* ------------------------------------------- failures of the store
\* except Exception as e: the response each handler turns an exception of
\* the store into
StoreError(c) ==
    IF c.op = "register"
    THEN Response(c, 500, "Registration error: OperationalError")
    ELSE IF c.op = "activate"
    THEN Response(c, 500, "Activation error: OperationalError")
    ELSE IF c.op = "login"
    THEN Response(c, 500, "Login error: OperationalError")
    ELSE Response(c, 0, "error: OperationalError")

\* the first query of request c raises: nothing to roll back, the handler
\* answers with the error
FirstQueryFails(c) ==
    /\ Quiet
    /\ Return(c, StoreError(c))

\* the store statement invocation c is at raises: db.rollback() undoes what
\* is not committed, the commits made before stay, and the handler answers
\* with the error
StoreFails(c) ==
    /\ BagIn(c, calls)
    /\ Quiet
    /\ Return(c, StoreError(c))

\* invocation c is abandoned before the statement it is at (the process
\* stops, the task is cancelled): no response is sent, last records the
\* request as "abandoned"; the session is closed, which rolls back what is
\* not committed, and the commits made before stay
Abandoned(c) ==
    /\ BagIn(c, calls)
    /\ Quiet
    /\ Return(c, Response(c, 0, "abandoned"))

\* ------------------------------------------------------------- clock
Tick ==
    /\ now < MaxTime
    /\ now' = now + 1
    /\ last' = NoResponse
    /\ pre' = IF calls = EmptyBag THEN PreNone ELSE pre
    /\ UNCHANGED <<users, pendings, inserted, issued, calls, consumed, scen>>

\* ---------------------------------------------------- specification
\* the requests that arrive while others are in flight
RegisterBegin == \E in \in RegisterInputs : Register(in)

\* the tokens presented are among those issued so far
ActivateBegin == \E token \in 1..issued : Activate(token)

LoginBegin == \E in \in LoginInputs : Login(in)

StartBegin == \E telegram_username \in TgHandles : Start(telegram_username)

Next ==
    \/ RegisterBegin
    \/ \E c \in BagToSet(calls) : RegisterCheckHandle(c)
    \/ \E c \in BagToSet(calls) : RegisterCheckPending(c)
    \/ \E c \in BagToSet(calls) : RegisterDeleteExpired(c)
    \/ \E c \in BagToSet(calls) : RegisterUpdate(c)
    \/ \E c \in BagToSet(calls) : RegisterInsert(c)
    \/ ActivateBegin
    \/ \E c \in BagToSet(calls) : ActivateCommit(c)
    \/ LoginBegin
    \/ StartBegin
    \/ \E c \in BagToSet(calls) : StartCheckPending(c)
    \/ \E c \in BagToSet(calls) : StartDeleteExpired(c)
    \/ \E c \in BagToSet(calls) : StartCheckUsername(c)
    \/ \E c \in BagToSet(calls) : StartDeleteCollision(c)
    \/ \E c \in BagToSet(calls) : StartPromote(c)
    \/ Tick

Spec == Init /\ [][Next]_vars

\* requests that run one after the other: a request arrives only when none
\* is in flight
RegisterBeginSeq ==
    calls = EmptyBag /\ \E in \in RegisterInputsSeq : Register(in)

\* any token may be presented, issued or not
ActivateBeginSeq ==
    calls = EmptyBag /\ \E token \in 1..MaxTokens : Activate(token)

LoginBeginSeq ==
    calls = EmptyBag /\ \E in \in LoginInputsSeq : Login(in)

StartBeginSeq ==
    calls = EmptyBag /\ \E telegram_username \in TgHandles : Start(telegram_username)

NextSeq ==
    \/ RegisterBeginSeq
    \/ \E c \in BagToSet(calls) : RegisterCheckHandle(c)
    \/ \E c \in BagToSet(calls) : RegisterCheckPending(c)
    \/ \E c \in BagToSet(calls) : RegisterDeleteExpired(c)
    \/ \E c \in BagToSet(calls) : RegisterUpdate(c)
    \/ \E c \in BagToSet(calls) : RegisterInsert(c)
    \/ ActivateBeginSeq
    \/ \E c \in BagToSet(calls) : ActivateCommit(c)
    \/ LoginBeginSeq
    \/ StartBeginSeq
    \/ \E c \in BagToSet(calls) : StartCheckPending(c)
    \/ \E c \in BagToSet(calls) : StartDeleteExpired(c)
    \/ \E c \in BagToSet(calls) : StartCheckUsername(c)
    \/ \E c \in BagToSet(calls) : StartDeleteCollision(c)
    \/ \E c \in BagToSet(calls) : StartPromote(c)
    \/ Tick

SpecSeq == Init /\ [][NextSeq]_vars

\* the requests whose first query can raise: those that reach it
Arrivals ==
    {[Idle EXCEPT !.op = "register", !.username = in[1], !.handle = in[2],
                  !.password = in[3]] : in \in RegisterInputs}
    \cup {[Idle EXCEPT !.op = "activate", !.token = t] : t \in 1..MaxTokens}
    \cup {[Idle EXCEPT !.op = "login", !.username = in[1], !.password = in[2]] :
             in \in LoginInputs}
    \cup {[Idle EXCEPT !.op = "start_or_activate", !.handle = h] : h \in TgHandles}

\* requests that run one after the other, any store statement of which may
\* raise, and any of which may be abandoned at any statement
NextFail ==
    \/ NextSeq
    \/ calls = EmptyBag /\ \E c \in Arrivals : FirstQueryFails(c)
    \/ \E c \in BagToSet(calls) : StoreFails(c)
    \/ \E c \in BagToSet(calls) : Abandoned(c)

SpecFail == Init /\ [][NextFail]_vars

\* the next statement of invocation c runs and does not raise
HandlerStep(c) ==
    \/ RegisterCheckHandle(c)
    \/ RegisterCheckPending(c)
    \/ RegisterDeleteExpired(c)
    \/ RegisterUpdate(c)
    \/ RegisterInsert(c)
    \/ ActivateCommit(c)
    \/ StartCheckPending(c)
    \/ StartDeleteExpired(c)
    \/ StartCheckUsername(c)
    \/ StartDeleteCollision(c)
    \/ StartPromote(c)

\* the number of invocations of op in flight
InFlight(op) ==
    BagCardinality([c \in {d \in BagToSet(calls) : d.op = op} |-> calls[c]])

\* (history) invocation c becomes the one whose end is waited for
Track(c) ==
    /\ BagIn(c, calls)
    /\ \A d \in BagToSet(calls) : ~d.tracked
    /\ calls' = Others(c) (+) SetToBag({[c EXCEPT !.tracked = TRUE]})
    /\ last' = NoResponse
    /\ UNCHANGED <<users, pendings, now, inserted, issued, consumed, scen, pre>>

\* a submission is taken on while the rows the invocations in flight may
\* still insert stay within MaxInserts
RegisterBeginLive ==
    /\ inserted + InFlight("register") < MaxInserts
    /\ RegisterBegin

\* a bot update is taken on while the tokens the invocations in flight may
\* still generate stay within MaxTokens
StartBeginLive ==
    /\ issued + InFlight("start_or_activate") < MaxTokens
    /\ StartBegin

\* requests in flight together, any store statement of which may raise
NextLive ==
    \/ RegisterBeginLive
    \/ ActivateBegin
    \/ LoginBegin
    \/ StartBeginLive
    \/ \E c \in BagToSet(calls) : HandlerStep(c)
    \/ Free /\ \E c \in Arrivals : FirstQueryFails(c)
    \/ \E c \in BagToSet(calls) : StoreFails(c)
    \/ \E c \in BagToSet(calls) : Track(c)
    \/ Tick

\* each process runs the handler of an invocation in flight on to its next
\* statement; nothing is assumed of the arrivals, of the failures, or of
\* the statements of the other invocations
SpecLive ==
    /\ Init
    /\ [][NextLive]_vars
    /\ WF_vars(\E c \in BagToSet(calls) : c.tracked /\ HandlerStep(c))

\* ------------------------------------------------------------- claims

C1_Normalised ==
    /\ NormUsername(scen.username) = scen.username
    /\ NormPassword(scen.password) = scen.password

C2_Login ==
    [][last'.op = "login" =>
          /\ last'.code = 200 <=>
                \E u \in users :
                    /\ u.username = last'.username
                    /\ verify_password(last'.password, u.hashed_password)
                    /\ u.is_active
          /\ users' = users
          /\ pendings' = pendings]_vars

C2_Witness ==
    /\ last.op = "login"
    /\ last.code = 200
    /\ \E u \in users : u.username = last.username /\ u.is_active

\* C3: with requests running one after the other, an activation request
\* whose token is the token of an inactive account is answered with success
\* and changes exactly that account (active, token cleared) and nothing
\* else; a request with a token already used successfully is answered 404
\* and changes nothing.
C3_Activation ==
    [][last'.op = "activate" =>
          LET match == {u \in users : u.activation_token = last'.token /\ ~u.is_active}
          IN  /\ pendings' = pendings
              /\ match # {} =>
                    /\ last'.code = 200
                    /\ \E u \in match :
                          users' = (users \ {u}) \cup
                              {[u EXCEPT !.is_active = TRUE, !.activation_token = 0]}
              /\ consumed[last'.token] > 0 =>
                    /\ last'.code = 404
                    /\ users' = users]_vars

C3_Witness ==
    /\ last.op = "activate"
    /\ last.code = 404
    /\ consumed[last.token] = 1

\* C4 as stated: for every token, at most one activation request carrying
\* it is answered with success.
C4_AtMostOnce == \A t \in DOMAIN consumed : consumed[t] <= 1

\* C5: every active account has no activation token.
C5_ActiveNoToken == \A u \in users : u.is_active => u.activation_token = 0

C5_Witness == \E u \in users : u.is_active

\* C6: no two accounts share a username, and no two share a telegram_handle.
C6_AccountsUnique ==
    \A a, b \in users :
        a # b => a.username # b.username /\ a.telegram_handle # b.telegram_handle

\* a confirmer for one handle has lost the race for the username to a
\* confirmer for another handle
C6_Witness ==
    /\ last.op = "start_or_activate"
    /\ last.detail = "error: IntegrityError"
    /\ users # {}
    /\ \A u \in users : u.telegram_handle # last.handle

\* C7: there is at most one pending registration per telegram_handle.
C7_OnePendingPerHandle ==
    \A p, q \in pendings : p.telegram_handle = q.telegram_handle => p = q

\* of two submissions for one handle in flight together, the second insert
\* was refused
C7_Witness ==
    /\ last.op = "register"
    /\ last.detail = "Registration error: IntegrityError"
    /\ \E p \in pendings : p.telegram_handle = NormHandle(last.handle)

\* C8 as stated: when two valid submissions for one handle, with no account
\* and no earlier pending registration for it, are in flight together,
\* neither is answered with the failure of the handle-uniqueness constraint.
C8_BothSucceed ==
    ~ /\ last.op = "register"
      /\ last.detail = "Registration error: IntegrityError"
      /\ users = {}
      /\ inserted = 2
      /\ Cardinality(pendings) = 1

\* C9 as stated: a confirmer that answers when an account exists for its
\* handle either has just promoted it (new link) or reports that account's
\* status; it does not end in an error or in "register first".
C9_SecondSeesAccount ==
    (/\ last.op = "start_or_activate"
     /\ \E u \in users : u.telegram_handle = last.handle)
    => last.detail \in {"registered", "already_activated", "not_activated",
                        "contact_admin"}

\* C10: no account is ever in the store together with the pending row it
\* was promoted from; the step that inserts an account is a promotion that
\* inserts exactly that account and removes its pending row in the same
\* step, and a promotion that fails changes neither table.
C10_PromotionAtomic ==
    /\ [](\A u \in users : \A p \in pendings : p.id # u.pending_id)
    /\ [][/\ Cardinality(users') > Cardinality(users) =>
                /\ last'.op = "start_or_activate"
                /\ last'.detail = "registered"
                /\ \E u \in users' \ users :
                      /\ users' = users \cup {u}
                      /\ u.activation_token = last'.link
                      /\ pendings' = {p \in pendings : p.id # u.pending_id}
          /\ (last'.op = "start_or_activate"
              /\ last'.detail = "error: IntegrityError") =>
                /\ users' = users
                /\ pendings' = pendings]_vars

C10_Witness ==
    /\ last.op = "start_or_activate"
    /\ last.detail = "registered"
    /\ \E u \in users : u.activation_token = last.link /\ ~u.is_active

\* ------------------------------------------- contracts of single calls
\* the step just taken answered a call of op that no other call overlapped:
\* pre is the store and the clock as that call found them
Answered(op) == last.op = op /\ pre.stage = "on"

\* the submission r passes the validation of register
ValidSubmission(r) ==
    /\ Len(NormUsername(r.username)) >= MinUsernameLen
    /\ Len(NormUsername(r.username)) <= MaxUsernameLen
    /\ NormHandle(r.handle) # <<>>
    /\ Len(NormPassword(r.password)) >= MinPasswordLen

\* no account among rows holds the username or the handle of submission r
NoAccountFor(rows, r) ==
    \A u \in rows :
        /\ u.username # NormUsername(r.username)
        /\ u.telegram_handle # NormHandle(r.handle)

\* the pending rows of handle h among rows
PendingsOf(rows, h) == {p \in rows : p.telegram_handle = h}

\* row p carries submission r, in the normal form register gives it
Carries(p, r) ==
    /\ p.username = NormUsername(r.username)
    /\ p.telegram_handle = NormHandle(r.handle)
    /\ p.hashed_password = get_password_hash(NormPassword(r.password))

\* C11: a register call, not overlapped by another call, of a valid
\* submission that finds no account with its username or its handle and no
\* pending row for its handle, is answered "Registration request created"
\* (go to the bot), leaves the accounts as they were, and leaves exactly one
\* pending row for the handle, carrying the submitted (normalised) username,
\* the digest of the submitted password and expires_at = now + 1 hour.
C11_FirstRegistration ==
    (/\ Answered("register")
     /\ ValidSubmission(last)
     /\ NoAccountFor(pre.users, last)
     /\ PendingsOf(pre.pendings, NormHandle(last.handle)) = {})
    => /\ last.code = 200
       /\ last.detail = "Registration request created"
       /\ users = pre.users
       /\ \E p \in pendings :
             /\ PendingsOf(pendings, NormHandle(last.handle)) = {p}
             /\ Carries(p, last)
             /\ p.expires_at = now + TTL
             /\ pendings = pre.pendings \cup {p}

\* the first submission ever, one that register had to normalise, is stored
C11_Witness ==
    /\ Answered("register")
    /\ last.detail = "Registration request created"
    /\ last.username # NormUsername(last.username)
    /\ pre.users = {}
    /\ pre.pendings = {}
    /\ \E p \in pendings : pendings = {p} /\ Carries(p, last) /\ p.expires_at = now + TTL

\* the call just answered is a register call, not overlapped by another
\* call, of a valid submission for a handle with a pending row that is
\* unexpired when register compares the clock
C12_Resubmits ==
    /\ Answered("register")
    /\ ValidSubmission(last)
    /\ \E p \in PendingsOf(pre.pendings, NormHandle(last.handle)) :
          p.expires_at >= now

\* that row now carries the submission and is the only row of the handle
C12_Replaced ==
    \E p \in PendingsOf(pre.pendings, NormHandle(last.handle)) :
        \E q \in pendings :
            /\ q.id = p.id
            /\ Carries(q, last)
            /\ PendingsOf(pendings, NormHandle(last.handle)) = {q}

\* C12 as stated: every valid resubmission for a handle with an unexpired
\* pending row replaces that row's username and password digest and leaves
\* one row for the handle.
C12_Original == C12_Resubmits => C12_Replaced

\* C12 amended: the same, for a submission whose username and handle are
\* held by no account (register checks the accounts first and rejects the
\* others without touching the pending row).
C12_Resubmission ==
    (C12_Resubmits /\ NoAccountFor(pre.users, last))
    => /\ C12_Replaced
       /\ last.detail = "Registration request updated"

\* a pending row has been given another username and another digest
C12_Witness ==
    /\ C12_Resubmits
    /\ C12_Replaced
    /\ last.detail = "Registration request updated"
    /\ \E p \in pre.pendings : \E q \in pendings :
          /\ q.id = p.id
          /\ q.username # p.username
          /\ q.hashed_password # p.hashed_password

\* the call just answered is a register call, not overlapped by another
\* call, of a valid submission for a handle whose pending row had expired
\* when the call arrived
C13_ResubmitsLate ==
    /\ Answered("register")
    /\ ValidSubmission(last)
    /\ \E p \in PendingsOf(pre.pendings, NormHandle(last.handle)) :
          p.expires_at < pre.now

\* the stale row is gone and one fresh row, carrying the submission and
\* expiring one hour from now, is the only row of the handle
C13_Refreshed ==
    \E p \in PendingsOf(pre.pendings, NormHandle(last.handle)) :
        \E q \in pendings :
            /\ q.id # p.id
            /\ q \notin pre.pendings
            /\ pendings = (pre.pendings \ {p}) \cup {q}
            /\ PendingsOf(pendings, NormHandle(last.handle)) = {q}
            /\ Carries(q, last)
            /\ q.expires_at = now + TTL

\* C13 as stated: every valid resubmission for a handle whose pending row
\* has expired removes the stale row and inserts a fresh one, the only row
\* of the handle, with the latest username and digest and expires_at =
\* now + 1 hour.
C13_Original == C13_ResubmitsLate => C13_Refreshed

\* C13 amended: the same, for a submission whose username and handle are
\* held by no account (register rejects the others before it looks at the
\* pending row, which then stays as it is).
C13_LateResubmission ==
    (C13_ResubmitsLate /\ NoAccountFor(pre.users, last))
    => /\ C13_Refreshed
       /\ last.detail = "Registration request created"

\* an expired row has been replaced by a fresh one with another username
C13_Witness ==
    /\ C13_ResubmitsLate
    /\ C13_Refreshed
    /\ \E p \in pre.pendings : \E q \in pendings :
          /\ q.telegram_handle = p.telegram_handle
          /\ q.username # p.username
          /\ q.expires_at > p.expires_at

\* the accounts of handle h among rows
AccountsOf(rows, h) == {u \in rows : u.telegram_handle = h}

\* the call just answered is a bot call, not overlapped by another call,
\* from a handle that had no account and a pending row, unexpired when the
\* bot compares the clock, whose username no account held
C14_Confirms ==
    /\ Answered("start_or_activate")
    /\ AccountsOf(pre.users, last.handle) = {}
    /\ \E p \in PendingsOf(pre.pendings, last.handle) :
          /\ p.expires_at >= now
          /\ \A u \in pre.users : u.username # p.username

\* C14: such a call leaves no pending row for the handle and exactly one
\* account for it, new, inactive, with a non-empty activation token, and the
\* link it reports carries exactly that token.
C14_Promotion ==
    C14_Confirms
    => /\ last.detail = "registered"
       /\ PendingsOf(pendings, last.handle) = {}
       /\ \E u \in users :
             /\ AccountsOf(users, last.handle) = {u}
             /\ users = pre.users \cup {u}
             /\ ~u.is_active
             /\ u.activation_token # 0
             /\ last.link = u.activation_token

\* a second account has been promoted while another pending row waits
C14_Witness ==
    /\ C14_Confirms
    /\ last.detail = "registered"
    /\ Cardinality(users) = 2
    /\ \E u \in users \ pre.users : last.link = u.activation_token

\* C15: a bot call that arrives when its handle has an account (accounts
\* come from promotions only) is answered at its first query with that
\* account's current status, "already activated" or "not activated" with
\* the link of the stored token, and changes neither table; no bot call
\* goes past that query while its handle has an account.
C15_Idempotent ==
    [][/\ (/\ last'.op = "start_or_activate"
           /\ calls' = calls
           /\ AccountsOf(users, last'.handle) # {})
          => /\ users' = users
             /\ pendings' = pendings
             /\ \E u \in users :
                   /\ AccountsOf(users, last'.handle) = {u}
                   /\ last'.name = u.username
                   /\ IF u.is_active
                      THEN last'.detail = "already_activated"
                      ELSE /\ last'.detail = "not_activated"
                           /\ last'.link = u.activation_token
                           /\ last'.link # 0
       /\ \A c \in BagToSet(calls') :
             (/\ CopiesIn(c, calls') > CopiesIn(c, calls)
              /\ c.op = "start_or_activate"
              /\ c.pc = "check_pending")
             => AccountsOf(users, c.handle) = {}]_vars

\* the bot has been asked again after the activation of the account
C15_Witness ==
    /\ last.op = "start_or_activate"
    /\ last.detail = "already_activated"
    /\ \E u \in users :
          /\ u.telegram_handle = last.handle
          /\ u.is_active
          /\ AccountsOf(users, last.handle) = {u}

\* C16: a bot call, not overlapped by another call, from a handle that has
\* neither an account nor a pending row is answered "please register first"
\* and leaves both tables as they were.
C16_NothingToConfirm ==
    (/\ Answered("start_or_activate")
     /\ AccountsOf(pre.users, last.handle) = {}
     /\ PendingsOf(pre.pendings, last.handle) = {})
    => /\ last.detail = "register_first"
       /\ users = pre.users
       /\ pendings = pre.pendings

\* the bot has sent a handle away while another handle has a pending row
C16_Witness ==
    /\ Answered("start_or_activate")
    /\ last.detail = "register_first"
    /\ AccountsOf(pre.users, last.handle) = {}
    /\ PendingsOf(pre.pendings, last.handle) = {}
    /\ pre.pendings # {}
    /\ pendings = pre.pendings
    /\ users = pre.users

\* what login answers to the form in = <<username, password>> on the
\* store as it is
LoginMessage(in) == LoginDetail(LoginStatus(UserByUsername(in[1]), in[2]))

\* the case of the claim that the form in falls under on the store as it is
LoginCase(in) ==
    LET known == {u \in users : u.username = in[1]}
    IN  IF known = {} THEN "unknown username"
        ELSE IF \E u \in known : ~verify_password(in[2], u.hashed_password)
        THEN "wrong password"
        ELSE IF \E u \in known : ~u.is_active THEN "inactive account"
        ELSE "success"

\* two forms that fail, for different reasons
C17_TwoFailures(a, b) ==
    /\ LoginCase(a) # "success"
    /\ LoginCase(b) # "success"
    /\ LoginCase(a) # LoginCase(b)

\* C17 as stated: on every store, two logins that fail for different
\* reasons among unknown username, wrong password and inactive account get
\* different messages.
C17_Original ==
    \A a, b \in LoginInputsSeq :
        C17_TwoFailures(a, b) => LoginMessage(a) # LoginMessage(b)

\* C17 amended: login has two failure messages; the unknown username and
\* the wrong password get the same one, the inactive account with correct
\* credentials gets another; and the response login sends is that message.
C17_LoginFailures ==
    /\ \A a, b \in LoginInputsSeq :
          C17_TwoFailures(a, b) =>
              (LoginMessage(a) = LoginMessage(b)
                 <=> "inactive account" \notin {LoginCase(a), LoginCase(b)})
    /\ last.op = "login" => last.detail = LoginMessage(<<last.username, last.password>>)

\* login has just refused correct credentials on an inactive account, on a
\* store where other forms have an unknown username and a wrong password
C17_Witness ==
    /\ last.op = "login"
    /\ LoginCase(<<last.username, last.password>>) = "inactive account"
    /\ last.detail = "Inactive user"
    /\ \E a, b \in LoginInputsSeq :
          /\ LoginCase(a) = "unknown username"
          /\ LoginCase(b) = "wrong password"
          /\ LoginMessage(a) = LoginMessage(b)
          /\ LoginMessage(a) # last.detail

\* C18: in every step, every account is still there with the same
\* username, telegram_handle and password digest; no account goes from
\* active to inactive; and an account goes from inactive to active only in
\* the step in which activate_account answers with success.
C18_Lifecycle ==
    [][\A u \in users :
          \E v \in users' :
              /\ v.id = u.id
              /\ v.username = u.username
              /\ v.telegram_handle = u.telegram_handle
              /\ v.hashed_password = u.hashed_password
              /\ u.is_active => v.is_active
              /\ v.is_active # u.is_active =>
                    /\ last'.op = "activate"
                    /\ last'.code = 200
                    /\ last'.name = u.username]_vars

\* one of two accounts has just been activated
C18_Witness ==
    /\ last.op = "activate"
    /\ last.code = 200
    /\ Cardinality(users) = 2
    /\ \E u, v \in users :
          /\ u.username = last.name
          /\ u.is_active
          /\ ~v.is_active

\* the details of the validation errors, by field
UsernameErrors ==
    {"Username must be at least 3 characters",
     "Username must be 50 characters or less"}

HandleErrors == {"Telegram handle is required"}

PasswordErrors == {"Password must be at least 6 characters"}

\* C19: the step that answers a submission whose stripped username is
\* shorter than 3 or longer than 50 answers 400 with a username error; else,
\* if the handle register computes is empty, 400 with the handle error;
\* else, if the stripped password is shorter than 6, 400 with the password
\* error; in all three cases it leaves both tables as they are; and a
\* submission that passes the three tests never gets one of these errors.
C19_Validation ==
    [][last'.op = "register" =>
          LET u == Len(NormUsername(last'.username))
              h == Len(NormHandle(last'.handle))
              p == Len(NormPassword(last'.password))
              badUsername == u < 3 \/ u > 50
              badHandle == h = 0
              badPassword == p < 6
              rejected == /\ last'.code = 400
                          /\ users' = users
                          /\ pendings' = pendings
          IN  /\ badUsername => rejected /\ last'.detail \in UsernameErrors
              /\ (~badUsername /\ badHandle) =>
                    rejected /\ last'.detail \in HandleErrors
              /\ (~badUsername /\ ~badHandle /\ badPassword) =>
                    rejected /\ last'.detail \in PasswordErrors
              /\ (~badUsername /\ ~badHandle /\ ~badPassword) =>
                    last'.detail \notin
                        UsernameErrors \cup HandleErrors \cup PasswordErrors]_vars

\* a submission with all three fields invalid has been refused for its
\* username while a pending row was in the table
C19_Witness ==
    /\ last.op = "register"
    /\ last.code = 400
    /\ last.detail \in UsernameErrors
    /\ Len(NormUsername(last.username)) < 3
    /\ NormHandle(last.handle) = <<>>
    /\ Len(NormPassword(last.password)) < 6
    /\ pendings # {}

\* C20: a register call, not overlapped by another call, of a valid
\* submission whose username an account holds is answered 400 "Username
\* already registered", also when an account holds its handle as well;
\* otherwise, if an account holds its handle, 400 "This Telegram handle is
\* already registered"; in both cases both tables stay as they were.
C20_Conflicts ==
    (Answered("register") /\ ValidSubmission(last))
    => LET usernameHeld ==
               \E u \in pre.users : u.username = NormUsername(last.username)
           handleHeld ==
               \E u \in pre.users : u.telegram_handle = NormHandle(last.handle)
           rejected == /\ last.code = 400
                       /\ users = pre.users
                       /\ pendings = pre.pendings
       IN  /\ usernameHeld =>
                 rejected /\ last.detail = "Username already registered"
           /\ (~usernameHeld /\ handleHeld) =>
                 rejected /\ last.detail = "This Telegram handle is already registered"

\* a submission whose username and handle are both those of an account has
\* been refused for its username, while another handle has a pending row
C20_Witness ==
    /\ Answered("register")
    /\ ValidSubmission(last)
    /\ last.detail = "Username already registered"
    /\ \E u \in pre.users :
          /\ u.username = NormUsername(last.username)
          /\ u.telegram_handle = NormHandle(last.handle)
    /\ pendings # {}
    /\ pendings = pre.pendings


\* the call just answered is a bot call, not overlapped by another call,
\* from a handle that had no account and a pending row already expired when
\* the call arrived
C21_ConfirmsLate ==
    /\ Answered("start_or_activate")
    /\ AccountsOf(pre.users, last.handle) = {}
    /\ \E p \in PendingsOf(pre.pendings, last.handle) : p.expires_at < pre.now

\* C21: such a call, however long after the expiry it arrives and whatever
\* register did to the row before, deletes that pending row and no other,
\* reports the expiry, and leaves the accounts as they were.
C21_ExpiredPending ==
    C21_ConfirmsLate
    => /\ last.detail = "expired"
       /\ pendings = pre.pendings \ PendingsOf(pre.pendings, last.handle)
       /\ users = pre.users

\* the bot has reported the expiry of a row it found more than an hour past
\* its expiry, while another handle's row and an account stay in the store
C21_Witness ==
    /\ C21_ConfirmsLate
    /\ last.detail = "expired"
    /\ \E p \in PendingsOf(pre.pendings, last.handle) :
          /\ p.expires_at + TTL <= pre.now
          /\ p \notin pendings
    /\ users # {}


\* the call just answered is a bot call, not overlapped by another call,
\* from a handle that had no account and a pending row, unexpired when the
\* bot compares the clock, whose username an account of another handle held
C22_Collides ==
    /\ Answered("start_or_activate")
    /\ AccountsOf(pre.users, last.handle) = {}
    /\ \E p \in PendingsOf(pre.pendings, last.handle) :
          /\ p.expires_at >= now
          /\ \E u \in pre.users : u.username = p.username

\* C22: such a call deletes the pending row of its handle and no other,
\* reports the collision on that username, and leaves the accounts, the
\* holder of the username among them, as they were.
C22_Collision ==
    C22_Collides
    => /\ last.detail = "username_taken"
       /\ \A p \in PendingsOf(pre.pendings, last.handle) : last.name = p.username
       /\ pendings = pre.pendings \ PendingsOf(pre.pendings, last.handle)
       /\ users = pre.users

\* two handles asked for one username, one was promoted, and the bot has
\* just turned the other away while its row had not expired
C22_Witness ==
    /\ C22_Collides
    /\ last.detail = "username_taken"
    /\ pendings = {}
    /\ \E u \in users :
          /\ u.username = last.name
          /\ u.telegram_handle # last.handle
          /\ ~u.is_active


\* the reply the bot owes the holder of account u: the message, and the
\* token in the link, 0 when the message has no link
C23_Reply(u) ==
    IF u.is_active THEN [detail |-> "already_activated", link |-> 0]
    ELSE IF u.activation_token # 0
    THEN [detail |-> "not_activated", link |-> u.activation_token]
    ELSE [detail |-> "contact_admin", link |-> 0]

\* a bot call from handle h arrives in this step: it is answered at once,
\* or it is in flight after the step, at its lookup of the pending row
C23_Arrives(h) ==
    \/ /\ last'.op = "start_or_activate"
       /\ last'.handle = h
       /\ calls' = calls
    \/ \E c \in BagToSet(calls') :
          /\ CopiesIn(c, calls') > CopiesIn(c, calls)
          /\ c.op = "start_or_activate"
          /\ c.pc = "check_pending"
          /\ c.handle = h

\* C23: a bot call that arrives when its handle has an account is answered
\* in that step, before the lookup of the pending row, with the message the
\* state of the account determines (active: already activated; inactive with
\* a token: the link; inactive without a token: contact the administrator)
\* and the username; the link carries the token on the row and no token is
\* generated for it; both tables are left as they were; and no step changes
\* the token of an account other than to clear it, so the token on the row
\* is the one stored at promotion.
C23_StatusReport ==
    [][/\ \A h \in TgHandles : \A u \in AccountsOf(users, h) :
             C23_Arrives(h)
             => /\ calls' = calls
                /\ last'.op = "start_or_activate"
                /\ last'.detail = C23_Reply(u).detail
                /\ last'.link = C23_Reply(u).link
                /\ last'.name = u.username
                /\ issued' = issued
                /\ pendings' = pendings
                /\ users' = users
       /\ \A u \in users : \A v \in users' :
             v.id = u.id => v.activation_token \in {u.activation_token, 0}]_vars

\* the bot has repeated the link of an inactive account whose token is not
\* the latest one generated, while a pending row of the same handle waits
C23_Witness ==
    /\ last.op = "start_or_activate"
    /\ last.detail = "not_activated"
    /\ \E u \in AccountsOf(users, last.handle) :
          /\ last.link = u.activation_token
          /\ u.activation_token < issued
    /\ PendingsOf(pendings, last.handle) # {}


\* the details of the responses to a store statement that raised
ErrorDetails ==
    {"Registration error: OperationalError", "Registration error: IntegrityError",
     "Registration error: StaleDataError", "Activation error: OperationalError",
     "error: OperationalError", "error: IntegrityError"}

\* the call just ended is a register, bot or activate call, not overlapped
\* by another call, that a raising store statement or its abandonment ended
C24_Failed ==
    /\ \/ Answered("register")
       \/ Answered("start_or_activate")
       \/ Answered("activate")
    /\ last.detail \in ErrorDetails \cup {"abandoned"}

\* C24: a register, bot or activate call that a raising store statement or
\* its abandonment ends, at whatever statement, leaves both tables exactly
\* as it found them.
C24_NoPartialWrite ==
    C24_Failed => users = pre.users /\ pendings = pre.pendings


\* C25: every invocation in flight can take its next statement whatever the
\* other invocations are at (none waits for another, and no state is a
\* deadlock), and the invocation that is waited for, whichever it is,
\* eventually ends, with a response, whatever the others do and whether or
\* not a store statement raises.
C25_Terminates ==
    /\ [](\A c \in BagToSet(calls) : ENABLED HandlerStep(c))
    /\ [](ENABLED NextLive)
    /\ (\E c \in BagToSet(calls) : c.tracked)
          ~> (\A c \in BagToSet(calls) : ~c.tracked)

\* the invocation waited for is a bot call about to promote while a
\* register call for the same handle is in flight
C25_Witness ==
    \E c, d \in BagToSet(calls) :
        /\ c.tracked
        /\ c.op = "start_or_activate"
        /\ c.pc = "promote"
        /\ d.op = "register"
        /\ NormHandle(d.handle) = c.handle


\* the accounts the step creates
Created == {u \in users' : \A v \in users : v.id # u.id}

\* C26: under any interleaving, the account a promotion creates carries the
\* username and the password digest that the pending row it is promoted
\* from holds in the store at that moment, those of the latest submission
\* register answered with success, and never older ones the bot read before
\* an update.
C26_NoLostResubmission ==
    [][\A u \in Created : \A p \in pendings :
          p.id = u.pending_id
          => /\ u.username = p.username
             /\ u.hashed_password = p.hashed_password]_vars


\* C27: in every reachable state, under any interleaving of register and
\* the bot, no handle has both an account and a pending row.
C27_AccountOrPending ==
    \A u \in users : \A p \in pendings : u.telegram_handle # p.telegram_handle


\* the pending table differs from the one the call found by one inserted row
C28_OneInsert ==
    \E q \in pendings \ pre.pendings : pendings = pre.pendings \cup {q}

\* the pending table differs from the one the call found by the columns of
\* one row
C28_OneUpdate ==
    \E p \in pre.pendings : \E q \in pendings :
        /\ q.id = p.id
        /\ pendings = (pre.pendings \ {p}) \cup {q}

\* C28: a register call, not overlapped by another call, that is answered
\* with success has committed exactly one write, one insert or one update:
\* the store it leaves differs from the store it found by that one write,
\* whether it found no pending row, an unexpired one or an expired one.
C28_OneWrite ==
    (Answered("register") /\ last.code = 200)
    => /\ users = pre.users
       /\ C28_OneInsert \/ C28_OneUpdate


\* C29: a register call, not overlapped by another call, of a valid
\* submission for a handle with an unexpired pending row leaves that row's
\* expires_at, telegram_handle and confirmation_token as they were, leaves
\* every other pending row and every account as it was, and adds and
\* removes no row.
C29_UpdateFrame ==
    C12_Resubmits
    => /\ users = pre.users
       /\ \A q \in pendings : \E p \in pre.pendings : q.id = p.id
       /\ \A p \in pre.pendings : \E q \in pendings :
             /\ q.id = p.id
             /\ q.expires_at = p.expires_at
             /\ q.telegram_handle = p.telegram_handle
             /\ q.confirmation_token = p.confirmation_token
             /\ p.telegram_handle # NormHandle(last.handle) => q = p

\* a row has been given another username by an update that came an hour
\* after its insertion, beside the row of another handle
C29_Witness ==
    /\ C12_Resubmits
    /\ last.detail = "Registration request updated"
    /\ Cardinality(pendings) = 2
    /\ \E p \in pre.pendings : \E q \in pendings :
          /\ q.id = p.id
          /\ q.username # p.username
          /\ q.expires_at = now
          /\ now > 0


\* invocation c, with these locals, is in flight after the step and was not
\* before it
C30_Reaches(c) == CopiesIn(c, calls') > CopiesIn(c, calls)

\* a row's expires_at is the time of its insertion plus one hour, whatever
\* updates it afterwards
C30_ExpiryIsInsertionPlusTTL ==
    /\ \A q \in pendings' :
          (\A p \in pendings : p.id # q.id) => q.expires_at = now + TTL
    /\ \A p \in pendings : \A q \in pendings' :
          q.id = p.id => q.expires_at = p.expires_at

\* C30 as stated: every account is created at a time no later than one hour
\* after the insertion of the pending row it is promoted from, the row the
\* promoting call holds.
C30_Original ==
    [][/\ C30_ExpiryIsInsertionPlusTTL
       /\ \A u \in Created : \A c \in BagToSet(calls) : \A r \in c.row :
             (c.op = "start_or_activate" /\ r.id = u.pending_id)
             => now <= r.expires_at]_vars

\* C30 amended: every account is created by a bot call that compared the
\* clock with the expires_at of the row it promotes no later than one hour
\* after the insertion of that row, however many updates the row had; a call
\* whose comparison comes later, so any call that arrives later, creates no
\* account. The creation itself may come after the hour.
C30_BoundedConfirm ==
    [][/\ C30_ExpiryIsInsertionPlusTTL
       /\ \A c \in BagToSet(calls') :
             (C30_Reaches(c) /\ c.op = "start_or_activate")
             => /\ c.pc = "check_username"
                   => /\ BagIn([c EXCEPT !.pc = "check_pending", !.row = {}], calls)
                      /\ c.row # {}
                      /\ \A r \in c.row : now <= r.expires_at
                /\ c.pc = "promote"
                   => BagIn([c EXCEPT !.pc = "check_username"], calls)
       /\ \A u \in Created : \E c \in BagToSet(calls) :
             /\ c.op = "start_or_activate"
             /\ c.pc = "promote"
             /\ CopiesIn(c, calls') < CopiesIn(c, calls)
             /\ \E r \in c.row : r.id = u.pending_id]_vars

\* an account has just been created, by a call that no other call
\* overlapped, from a row that had expired by the time of the creation
C30_Witness ==
    /\ Answered("start_or_activate")
    /\ last.detail = "registered"
    /\ \E u \in users \ pre.users : \E p \in pre.pendings :
          /\ p.id = u.pending_id
          /\ p.expires_at < now


\* the scenario has passed the confirmation: register for a handle, any
\* number of successful resubmissions for it, the bot call of that handle,
\* one after the other with nothing else in between
C31_Confirmed == scen.stage \in {"confirmed", "activated", "done"}

C31_Normalised ==
    /\ NormUsername(scen.username) = scen.username
    /\ NormPassword(scen.password) = scen.password
    /\ NormPassword(scen.earlier) = scen.earlier

C32_InactiveHasToken ==
    /\ \A u \in users : ~u.is_active => u.activation_token # 0
    /\ last.detail \notin {"contact_admin", "Account is already activated"}

\* beside an account still inactive, with its token, a token has been
\* presented again after the activation it was used for
C32_Witness ==
    /\ \E u \in users : ~u.is_active /\ u.activation_token # 0
    /\ last.op = "activate"
    /\ last.code = 404
    /\ consumed[last.token] > 0


\* an activation request with token t arrives in this step: it is answered
\* at once, or it is in flight after the step, at its commit
C33_Arrives(t) ==
    \/ /\ last'.op = "activate"
       /\ last'.token = t
       /\ calls' = calls
    \/ \E c \in BagToSet(calls') :
          /\ CopiesIn(c, calls') > CopiesIn(c, calls)
          /\ c.op = "activate"
          /\ c.pc = "commit"
          /\ c.token = t

\* the step answers a request at its arrival with this status and leaves
\* both tables as they were
C33_Refused(code) ==
    /\ calls' = calls
    /\ last'.op = "activate"
    /\ last'.code = code
    /\ users' = users
    /\ pendings' = pendings

\* C33: an activation request whose token is on no account is answered 404,
\* one whose token is on an active account is answered 400, both leave every
\* account and every pending row as it was; and a step that answers an
\* activation request and changes a table answers it with success.
C33_ActivationFrame ==
    [][/\ \A t \in 1..MaxTokens :
             C33_Arrives(t)
             => /\ (\A u \in users : u.activation_token # t)
                   => C33_Refused(404)
                /\ (\E u \in users : u.activation_token = t /\ u.is_active)
                   => C33_Refused(400)
       /\ (last'.op = "activate" /\ (users' # users \/ pendings' # pendings))
          => last'.code = 200]_vars

\* a token that was never issued has been refused while an account awaits
\* its activation and a pending row its confirmation
C33_Witness ==
    /\ last.op = "activate"
    /\ last.code = 404
    /\ last.token > issued
    /\ \E u \in users : ~u.is_active
    /\ pendings # {}


\* the input with surrounding whitespace trimmed and a leading '@' removed
C34_Normal(raw) ==
    LET trimmed == Strip(raw)
    IN  IF trimmed # <<>> /\ Head(trimmed) = "@" THEN Tail(trimmed) ELSE trimmed

\* C34: a register call, not overlapped by another call, that is answered
\* with success leaves a pending row whose handle is the submitted one with
\* surrounding whitespace trimmed and a leading '@' removed, and one that is
\* refused for its handle was refused for an account with that handle; so
\* 'h', '@h', ' h ' and ' @h' all give the handle 'h' the bot looks up.
C34_HandleNormalisation ==
    Answered("register")
    => /\ last.code = 200
          => \E q \in pendings : q.telegram_handle = C34_Normal(last.handle)
       /\ last.detail = "This Telegram handle is already registered"
          => \E u \in pre.users : u.telegram_handle = C34_Normal(last.handle)

====
